---- MODULE Spec2Model ----
\* Model of the webhook signature engine: the scheme registry, the signature
\* schemes, SignatureObject (one entry) and Signature (the envelope).
\* Text is a sequence of one-character strings, so that split, parseInt and
\* template formatting are computed character by character.
EXTENDS Integers, Sequences, FiniteSets, TLC

\* ---------------------------------------------------------------- bounds
MaxSecrets == 2
MaxSchemes == 2
MaxPairs == 2

\* ---------------------------------------------------------------- text
Digits == <<"0", "1", "2", "3", "4", "5", "6", "7", "8", "9">>

IsDigit(c) == \E i \in 1..10 : Digits[i] = c

DigitVal(c) == (CHOOSE i \in 1..10 : Digits[i] = c) - 1

RECURSIVE NatToStr(_)
NatToStr(n) == IF n < 10 THEN <<Digits[n + 1]>>
               ELSE NatToStr(n \div 10) \o <<Digits[(n % 10) + 1]>>

\* `${n}` for an integer n
NumToStr(n) == IF n < 0 THEN <<"-">> \o NatToStr(0 - n) ELSE NatToStr(n)

\* String.prototype.split(sep): always at least one part
RECURSIVE SplitAcc(_, _, _)
SplitAcc(s, sep, cur) ==
  IF s = <<>> THEN <<cur>>
  ELSE IF Head(s) = sep THEN <<cur>> \o SplitAcc(Tail(s), sep, <<>>)
  ELSE SplitAcc(Tail(s), sep, Append(cur, Head(s)))

Split(s, sep) == SplitAcc(s, sep, <<>>)

\* Array.prototype.join(sep)
RECURSIVE Join(_, _)
Join(parts, sep) ==
  IF parts = <<>> THEN <<>>
  ELSE IF Len(parts) = 1 THEN parts[1]
  ELSE parts[1] \o <<sep>> \o Join(Tail(parts), sep)

\* String.prototype.replace(c, ''): removes the first occurrence of c
RECURSIVE ReplaceFirst(_, _)
ReplaceFirst(s, c) ==
  IF s = <<>> THEN <<>>
  ELSE IF Head(s) = c THEN Tail(s)
  ELSE <<Head(s)>> \o ReplaceFirst(Tail(s), c)

RECURSIVE TrimLeft(_)
TrimLeft(s) == IF s # <<>> /\ Head(s) = " " THEN TrimLeft(Tail(s)) ELSE s

RECURSIVE DigitPrefix(_)
DigitPrefix(s) == IF s # <<>> /\ IsDigit(Head(s)) THEN <<Head(s)>> \o DigitPrefix(Tail(s))
                  ELSE <<>>

RECURSIVE DigitsVal(_, _)
DigitsVal(s, acc) == IF s = <<>> THEN acc
                     ELSE DigitsVal(Tail(s), acc * 10 + DigitVal(Head(s)))

NaN == [isNaN |-> TRUE, n |-> 0]

\* parseInt(s, 10): leading blanks, an optional sign, then the longest run of
\* digits; whatever follows the digits is ignored; no digit at all is NaN
ParseInt(s) ==
  LET t == TrimLeft(s)
      neg == t # <<>> /\ Head(t) = "-"
      body == IF t # <<>> /\ Head(t) \in {"-", "+"} THEN Tail(t) ELSE t
      ds == DigitPrefix(body)
  IN IF ds = <<>> THEN NaN
     ELSE [isNaN |-> FALSE, n |-> IF neg THEN 0 - DigitsVal(ds, 0) ELSE DigitsVal(ds, 0)]

\* !x for a number x
Falsy(x) == x.isNaN \/ x.n = 0

\* crypto.timingSafeEqual on two buffers throws when the lengths differ; both
\* equals methods catch that and return false
TimingSafeEqual(a, b) ==
  IF Len(a) # Len(b) THEN FALSE
  ELSE \A i \in 1..Len(a) : a[i] = b[i]

\* ---------------------------------------------------------------- schemes
SignatureSchemeV1 == "SignatureSchemeV1"
FakeSignatureScheme == "FakeSignatureScheme"
OtherScheme == "OtherScheme"

SchemeObjs == {SignatureSchemeV1, FakeSignatureScheme, OtherScheme}

\* scheme.version(); OtherScheme is a second object of the Fake scheme's version
Version(s) == IF s = SignatureSchemeV1 THEN 1 ELSE 1337

\* hex rendering of a digest: collision-free over the alphabet in use and free
\* of the wire separators
HexOf(c) == CASE c = "," -> "c"
              [] c = "=" -> "e"
              [] c = "-" -> "d"
              [] c = "." -> "f"
              [] OTHER -> c

\* SignatureSchemeV1.sign: HMAC-SHA256 keyed by secret over `${t}` "." payload,
\* hex encoded; the MAC is modelled as collision-free
SignV1(t, payload, secret) ==
  LET msg == secret \o <<"f">> \o NumToStr(t) \o <<".">> \o payload
  IN [i \in 1..Len(msg) |-> HexOf(msg[i])]

\* FakeSignatureScheme.sign: `${t}:${secret}:(${payload.length})`
SignFake(t, payload, secret) ==
  NumToStr(t) \o <<":">> \o secret \o <<":", "(">> \o NumToStr(Len(payload)) \o <<")">>

\* another caller-supplied scheme: `${secret}:${t}`
SignOther(t, payload, secret) == secret \o <<":">> \o NumToStr(t)

Sign(s, t, payload, secret) ==
  IF s = SignatureSchemeV1 THEN SignV1(t, payload, secret)
  ELSE IF s = FakeSignatureScheme THEN SignFake(t, payload, secret)
  ELSE SignOther(t, payload, secret)

\* ---------------------------------------------------------------- registry
\* Schemes.find: the first scheme of that version, <<>> for undefined
Find(reg, version) ==
  LET hits == SelectSeq(reg, LAMBDA s : Version(s) = version)
  IN IF hits = <<>> THEN <<>> ELSE <<hits[1]>>

\* register without the lookup of the version
RegisterResultAlways(reg, scheme) == Append(reg, scheme)

RegisterResult(reg, scheme) ==
  IF Find(reg, Version(scheme)) # <<>> THEN reg ELSE Append(reg, scheme)

UnregisterResult(reg, version) == SelectSeq(reg, LAMBDA s : Version(s) # version)

\* ---------------------------------------------------------------- errors
ErrInvalidSignature == "invalid signature"
ErrInvalidFormat == "invalid signature format"
ErrInvalidVersion == "signature scheme version must be an integer"
ErrUnknownScheme == "invalid signature scheme version"
ErrDuplicateTimestamp == "timestamp cannot be specified multiple times"
ErrInvalidTimestamp == "timestamp must be an integer"
ErrMissingTimestamp == "missing timestamp"
ErrExpired == "signature has expired"
ErrNotSigned == "payload not signed"
ErrNoValidSignature == "no valid signature"
Ok == ""

DEFAULT_SIGNATURE_TOLERANCE == 300

\* ---------------------------------------------------------------- SignatureObject
SignatureObject(scheme, value) == [scheme |-> scheme, value |-> value]

createSignatureObject(scheme, timestamp, payload, secret) ==
  SignatureObject(scheme, Sign(scheme, timestamp, payload, secret))

ObjFail(msg, ver) == [err |-> msg, ver |-> ver, obj |-> <<>>]

\* SignatureObject.parse against the registry reg
SignatureObjectParse(value, reg) ==
  LET parts == Split(value, "=") IN
  IF Len(parts) # 2 THEN ObjFail(ErrInvalidFormat, 0)
  ELSE
    LET versionStr == parts[1]
        signature == parts[2]
    IN IF versionStr = <<>> \/ versionStr[1] # "v" THEN ObjFail(ErrInvalidFormat, 0)
       ELSE
         LET version == ParseInt(ReplaceFirst(versionStr, "v")) IN
         IF Falsy(version) THEN ObjFail(ErrInvalidVersion, 0)
         ELSE
           LET scheme == Find(reg, version.n) IN
           IF scheme = <<>> THEN ObjFail(ErrUnknownScheme, version.n)
           ELSE [err |-> Ok, ver |-> 0, obj |-> <<SignatureObject(scheme[1], signature)>>]

SignatureObjectEquals(a, b) == TimingSafeEqual(a.value, b.value)

NoScheme == "undefined"

\* SignatureObject.verify: signs afresh with the entry's own scheme object
SignatureObjectVerify(so, payload, secret, timestamp) ==
  IF so.scheme = NoScheme THEN FALSE
  ELSE SignatureObjectEquals(so, createSignatureObject(so.scheme, timestamp, payload, secret))

SignatureObjectToString(so) == <<"v">> \o NumToStr(Version(so.scheme)) \o <<"=">> \o so.value

\* ---------------------------------------------------------------- Signature
Signature(timestamp, signatureObjects) ==
  [timestamp |-> timestamp, signatureObjects |-> signatureObjects]

\* the inner forEach of createSignature: one entry per secret
RECURSIVE SignEach(_, _, _, _)
SignEach(scheme, secrets, timestamp, payload) ==
  IF secrets = <<>> THEN <<>>
  ELSE <<createSignatureObject(scheme, timestamp, payload, Head(secrets))>>
       \o SignEach(scheme, Tail(secrets), timestamp, payload)

\* the two loops nested the other way round: secret by secret
RECURSIVE SignAllSecretsOuter(_, _, _, _)
SignAllSecretsOuter(schemeList, secrets, timestamp, payload) ==
  IF secrets = <<>> THEN <<>>
  ELSE [i \in 1..Len(schemeList) |->
          createSignatureObject(schemeList[i], timestamp, payload, Head(secrets))]
       \o SignAllSecretsOuter(schemeList, Tail(secrets), timestamp, payload)

\* the outer forEach of createSignature: scheme by scheme
RECURSIVE SignAll(_, _, _, _)
SignAll(schemeList, secrets, timestamp, payload) ==
  IF schemeList = <<>> THEN <<>>
  ELSE SignEach(Head(schemeList), secrets, timestamp, payload)
       \o SignAll(Tail(schemeList), secrets, timestamp, payload)

\* params.schemes is <<>> when omitted, <<list>> when given
EffectiveSchemes(params, reg) == IF params.schemes = <<>> THEN reg ELSE params.schemes[1]

createSignature(params, reg) ==
  Signature(params.timestamp,
            SignAll(EffectiveSchemes(params, reg), params.secrets, params.timestamp, params.payload))

ParseFail(msg, ver) == [err |-> msg, ver |-> ver, timestamp |-> <<>>, signatures |-> <<>>]

\* an iteration that puts the parsed entry in front instead of pushing it
ParsePairPrepend(st, pair, reg) ==
  LET parts == Split(pair, "=") IN
  IF Len(parts) # 2 THEN ParseFail(ErrInvalidSignature, 0)
  ELSE IF parts[1] = <<"t">> THEN
         IF st.timestamp # <<>> THEN ParseFail(ErrDuplicateTimestamp, 0)
         ELSE IF Falsy(ParseInt(parts[2])) THEN ParseFail(ErrInvalidTimestamp, 0)
         ELSE [st EXCEPT !.timestamp = <<ParseInt(parts[2]).n>>]
       ELSE
         LET r == SignatureObjectParse(pair, reg) IN
         IF r.err # Ok THEN ParseFail(r.err, r.ver)
         ELSE [st EXCEPT !.signatures = <<r.obj[1]>> \o @]

\* one iteration of the forEach of Signature.parse; st.timestamp is <<>> while
\* the local is undefined
ParsePair(st, pair, reg) ==
  LET parts == Split(pair, "=") IN
  IF Len(parts) # 2 THEN ParseFail(ErrInvalidSignature, 0)
  ELSE
    LET k == parts[1]
        v == parts[2]
    IN IF k = <<"t">> THEN
         IF st.timestamp # <<>> THEN ParseFail(ErrDuplicateTimestamp, 0)
         ELSE
           LET ts == ParseInt(v) IN
           IF Falsy(ts) THEN ParseFail(ErrInvalidTimestamp, 0)
           ELSE [st EXCEPT !.timestamp = <<ts.n>>]
       ELSE
         LET r == SignatureObjectParse(pair, reg) IN
         IF r.err # Ok THEN ParseFail(r.err, r.ver)
         ELSE [st EXCEPT !.signatures = Append(@, r.obj[1])]

\* a loop that drops the pairs that fail instead of throwing
RECURSIVE ParsePairsSkipBad(_, _, _)
ParsePairsSkipBad(st, pairs, reg) ==
  IF pairs = <<>> THEN st
  ELSE LET nx == ParsePair(st, Head(pairs), reg)
       IN ParsePairsSkipBad(IF nx.err # Ok THEN st ELSE nx, Tail(pairs), reg)

RECURSIVE ParsePairs(_, _, _)
ParsePairs(st, pairs, reg) ==
  IF pairs = <<>> \/ st.err # Ok THEN st
  ELSE ParsePairs(ParsePair(st, Head(pairs), reg), Tail(pairs), reg)

\* Signature.parse against the registry reg
SignatureParse(value, reg) ==
  LET st == ParsePairs([err |-> Ok, ver |-> 0, timestamp |-> <<>>, signatures |-> <<>>],
                       Split(value, ","), reg)
  IN IF st.err # Ok THEN [err |-> st.err, ver |-> st.ver, out |-> <<>>]
     ELSE IF st.timestamp = <<>> THEN [err |-> ErrMissingTimestamp, ver |-> 0, out |-> <<>>]
     ELSE [err |-> Ok, ver |-> 0, out |-> <<Signature(st.timestamp[1], st.signatures)>>]

SignatureToString(sg) ==
  Join(<<<<"t", "=">> \o NumToStr(sg.timestamp)>>
       \o [i \in 1..Len(sg.signatureObjects) |-> SignatureObjectToString(sg.signatureObjects[i])],
       ",")

SignatureEquals(a, b) == TimingSafeEqual(SignatureToString(a), SignatureToString(b))

\* untrusted decided by the scheme object instead of its version
UntrustedByIdentity(so, untrustedSchemes) ==
  \E i \in 1..Len(untrustedSchemes) : untrustedSchemes[i] = so.scheme

\* the try block of verify: does any untrusted scheme have the entry's version
Untrusted(so, untrustedSchemes) ==
  \E i \in 1..Len(untrustedSchemes) : Version(untrustedSchemes[i]) = Version(so.scheme)

\* a loop that gives up after the first trusted entry
VerifyLoopFirstOnly(sos, payload, secret, timestamp, untrustedSchemes) ==
  IF sos = <<>> THEN ErrNoValidSignature
  ELSE IF SignatureObjectVerify(Head(sos), payload, secret, timestamp) THEN Ok
  ELSE ErrNoValidSignature

\* the for loop of verify
RECURSIVE VerifyLoop(_, _, _, _, _)
VerifyLoop(sos, payload, secret, timestamp, untrustedSchemes) ==
  IF sos = <<>> THEN ErrNoValidSignature
  ELSE IF Untrusted(Head(sos), untrustedSchemes)
       THEN VerifyLoop(Tail(sos), payload, secret, timestamp, untrustedSchemes)
  ELSE IF SignatureObjectVerify(Head(sos), payload, secret, timestamp) THEN Ok
  ELSE VerifyLoop(Tail(sos), payload, secret, timestamp, untrustedSchemes)

\* opts.tolerance is <<>> when unset
Tolerance(opts) == IF opts.tolerance = <<>> THEN DEFAULT_SIGNATURE_TOLERANCE ELSE opts.tolerance[1]

\* verify with >= in the tolerance check
SignatureVerifyInclusive(sg, payload, secret, opts, reg) ==
  IF ~opts.ignoreTolerance /\ (opts.now - sg.timestamp) >= Tolerance(opts) * 1000 THEN ErrExpired
  ELSE IF Len(sg.signatureObjects) = 0 THEN ErrNotSigned
  ELSE VerifyLoop(sg.signatureObjects, payload, secret, sg.timestamp, opts.untrustedSchemes)

\* verify that looks each entry's scheme up in the registry again
SignatureVerifyLookup(sg, payload, secret, opts, reg) ==
  LET rebound == [i \in 1..Len(sg.signatureObjects) |->
                    LET f == Find(reg, Version(sg.signatureObjects[i].scheme))
                    IN SignatureObject(IF f = <<>> THEN NoScheme ELSE f[1],
                                       sg.signatureObjects[i].value)]
  IN IF ~opts.ignoreTolerance /\ (opts.now - sg.timestamp) > Tolerance(opts) * 1000 THEN ErrExpired
     ELSE IF Len(sg.signatureObjects) = 0 THEN ErrNotSigned
     ELSE VerifyLoop(rebound, payload, secret, sg.timestamp, opts.untrustedSchemes)

\* Signature.verify: Ok when it returns, the message when it throws. The
\* registry is in scope of the code, hence a parameter here.
SignatureVerify(sg, payload, secret, opts, reg) ==
  IF ~opts.ignoreTolerance /\ (opts.now - sg.timestamp) > Tolerance(opts) * 1000 THEN ErrExpired
  ELSE IF Len(sg.signatureObjects) = 0 THEN ErrNotSigned
  ELSE VerifyLoop(sg.signatureObjects, payload, secret, sg.timestamp, opts.untrustedSchemes)

\* ---------------------------------------------------------------- state
VARIABLES
  schemes,   \* Schemes.schemes, the process-wide registry
  regCall,   \* the last Schemes.register / Schemes.unregister call
  sig,       \* the envelope in hand: <<>> or <<Signature>>
  made,      \* how the envelope in hand was built
  last       \* the last Signature / SignatureObject call, its outcome, and for
             \* the calls that read the registry the registry they read (reg)

vars == <<schemes, regCall, sig, made, last>>

NoOpts == [now |-> 0, tolerance |-> <<>>, ignoreTolerance |-> FALSE, untrustedSchemes |-> <<>>]
NoParams == [timestamp |-> 0, payload |-> <<>>, secrets |-> <<>>, schemes |-> <<>>]
NoCall == [op |-> "none", err |-> Ok, ver |-> 0, text |-> <<>>, payload |-> <<>>,
           secret |-> <<>>, opts |-> NoOpts, params |-> NoParams, out |-> <<>>,
           obj |-> <<>>, eq |-> FALSE, reg |-> <<>>]
NotMade == [created |-> FALSE, params |-> NoParams, schemes |-> <<>>]
NoRegCall == [op |-> "none", scheme |-> NoScheme, version |-> 0]

Init ==
  /\ schemes = <<SignatureSchemeV1>>
  /\ regCall = NoRegCall
  /\ sig = <<>>
  /\ made = NotMade
  /\ last = NoCall

\* ---------------------------------------------------------------- operations
Register(scheme) ==
  /\ schemes' = RegisterResult(schemes, scheme)
  /\ regCall' = [op |-> "register", scheme |-> scheme, version |-> Version(scheme)]
  /\ UNCHANGED <<sig, made, last>>

Unregister(version) ==
  /\ schemes' = UnregisterResult(schemes, version)
  /\ regCall' = [op |-> "unregister", scheme |-> NoScheme, version |-> version]
  /\ UNCHANGED <<sig, made, last>>

CreateSignature(params) ==
  LET res == createSignature(params, schemes) IN
  /\ sig' = <<res>>
  /\ made' = [created |-> TRUE, params |-> params, schemes |-> EffectiveSchemes(params, schemes)]
  /\ last' = [NoCall EXCEPT !.op = "createSignature", !.reg = schemes, !.params = params, !.out = <<res>>]
  /\ UNCHANGED <<schemes, regCall>>

Parse(text) ==
  LET res == SignatureParse(text, schemes) IN
  /\ sig' = IF res.err = Ok THEN res.out ELSE sig
  /\ made' = IF res.err = Ok THEN NotMade ELSE made
  /\ last' = [NoCall EXCEPT !.op = "parse", !.reg = schemes, !.text = text, !.err = res.err,
                            !.ver = res.ver, !.out = res.out]
  /\ UNCHANGED <<schemes, regCall>>

\* Signature.parse(E.toString()) followed by E'.equals(E), E the envelope in hand
ParseToString ==
  /\ sig # <<>>
  /\ LET text == SignatureToString(sig[1])
         res == SignatureParse(text, schemes)
     IN last' = [NoCall EXCEPT !.op = "roundtrip", !.reg = schemes, !.text = text, !.err = res.err,
                               !.ver = res.ver, !.out = res.out,
                               !.eq = (res.err = Ok /\ SignatureEquals(res.out[1], sig[1]))]
  /\ UNCHANGED <<schemes, regCall, sig, made>>

ParseObject(text) ==
  LET res == SignatureObjectParse(text, schemes) IN
  /\ last' = [NoCall EXCEPT !.op = "parseObject", !.reg = schemes, !.text = text, !.err = res.err,
                            !.ver = res.ver, !.obj = res.obj]
  /\ UNCHANGED <<schemes, regCall, sig, made>>

Verify(payload, secret, opts) ==
  /\ sig # <<>>
  /\ last' = [NoCall EXCEPT !.op = "verify", !.payload = payload, !.secret = secret,
                            !.opts = opts,
                            !.err = SignatureVerify(sig[1], payload, secret, opts, schemes)]
  /\ UNCHANGED <<schemes, regCall, sig, made>>

\* ---------------------------------------------------------------- inputs
SeqsUpTo(S, n) == UNION {[1..k -> S] : k \in 0..n}

Payloads == {<<"p">>, <<"q">>}
Secrets == {<<"a">>, <<",">>}
Timestamps == {0 - 1, 0, 1}
Versions == {1, 2, 1337}

SecretLists == SeqsUpTo(Secrets, MaxSecrets)
SchemeLists == SeqsUpTo(SchemeObjs, MaxSchemes)
SchemesArgs == {<<>>} \cup {<<l>> : l \in SchemeLists}

Params(ts, ps, sls) ==
  [timestamp : ts, payload : ps, secrets : sls, schemes : SchemesArgs]

\* ages (now - timestamp) around the boundaries of the tolerances in use
Ages == {0 - 1, 0, 1, 1000, 1001, 300000, 300001}

TimingOpts(t) ==
  [now : {t + a : a \in Ages}, tolerance : {<<>>, <<0>>, <<1>>}, ignoreTolerance : BOOLEAN,
   untrustedSchemes : {<<>>}]

UntrustedLists == {<<>>, <<SignatureSchemeV1>>, <<OtherScheme>>,
                   <<FakeSignatureScheme, SignatureSchemeV1>>}

TrustOpts(t) ==
  [now : {t}, tolerance : {<<>>}, ignoreTolerance : {FALSE}, untrustedSchemes : UntrustedLists]
  \cup [now : {t + 300001}, tolerance : {<<>>}, ignoreTolerance : BOOLEAN,
        untrustedSchemes : {<<>>, <<OtherScheme>>}]

\* key=value chunks an envelope text is assembled from
PairSamples == {<<"t", "=", "1">>,
                <<"t", "=", "-", "1">>,
                <<"t", "=", "1", "a">>,
                <<"v", "1", "=", "a">>,
                <<"v", "9", "9", "9", "=", "a">>}

Texts == {Join(ps, ",") : ps \in SeqsUpTo(PairSamples, MaxPairs)}
         \cup {<<"t", "=", "0">>,
                  <<"t", "=", "a">>,
                  <<"x">>,
                  <<"t", "=", "1", ",", "v", "1", "=", "a", "=", "b">>}

\* single chunks handed to SignatureObject.parse
ObjectSamples == {<<"v", "1", "=", "a">>,
                  <<"v", "1", "a", "=", "a">>,
                  <<"v", "0", "=", "a">>,
                  <<"v", "-", "1", "2", "=", "a">>,
                  <<"v", "a", "=", "a">>,
                  <<"v", "=", "a">>,
                  <<"v", "9", "9", "9", "=", "a">>,
                  <<"v", "1", "3", "3", "7", "=", "a">>,
                  <<"x", "=", "a">>,
                  <<"v", "1">>,
                  <<"v", "1", "=", "a", "=", "b">>,
                  <<"=", "a">>,
                  <<"v", " ", "+", "1", "=", "a">>,
                  <<"v", "0", "1", "=", "a">>}

SmallSchemesArgs == {<<>>} \cup {<<l>> : l \in SeqsUpTo({SignatureSchemeV1, FakeSignatureScheme}, MaxSchemes)}

FakeSchemesArgs == {<<>>} \cup {<<l>> : l \in SeqsUpTo({FakeSignatureScheme}, MaxSchemes)}

\* ---------------------------------------------------------------- specifications
\* registry changes around signing, parsing and verifying one envelope
Next ==
  \/ \E s \in SchemeObjs : Register(s)
  \/ \E v \in Versions : Unregister(v)
  \/ \E params \in Params({1}, {<<"p">>}, SeqsUpTo({<<"a">>}, MaxSecrets)) :
       params.schemes \in SmallSchemesArgs /\ CreateSignature(params)
  \/ \E text \in {<<"t", "=", "1", ",", "v", "1", "3", "3", "7", "=", "1", ":", "a", ":", "(", "1", ")">>,
                  <<"t", "=", "1", ",", "v", "1", "=", "x">>} : Parse(text)
  \/ \E secret \in Secrets, u \in {<<>>, <<SignatureSchemeV1>>} :
       Verify(<<"p">>, secret, [NoOpts EXCEPT !.now = 1, !.untrustedSchemes = u])

Spec == Init /\ [][Next]_vars

\* signing and verifying: which entries authorise a payload
NextVerify ==
  \/ \E params \in Params({1}, {<<"p">>}, SecretLists) :
       params.schemes \in SmallSchemesArgs /\ CreateSignature(params)
  \/ \E payload \in Payloads, secret \in Secrets, opts \in TrustOpts(1) :
       Verify(payload, secret, opts)

SpecVerify == Init /\ [][NextVerify]_vars

\* signing and verifying: the age of the timestamp
NextTolerance ==
  \/ \E params \in Params(Timestamps, {<<"p">>}, SecretLists) :
       params.schemes = <<>> /\ CreateSignature(params)
  \/ \E secret \in Secrets, opts \in UNION {TimingOpts(t) : t \in Timestamps} :
       /\ sig # <<>>
       /\ opts \in TimingOpts(sig[1].timestamp)
       /\ Verify(<<"p">>, secret, opts)

SpecTolerance == Init /\ [][NextTolerance]_vars

\* the registry and signing
NextSign ==
  \/ \E s \in {SignatureSchemeV1, FakeSignatureScheme} : Register(s)
  \/ \E v \in {1, 1337} : Unregister(v)
  \/ \E params \in Params({1}, {<<"p">>}, SecretLists) :
       params.schemes \in SmallSchemesArgs /\ CreateSignature(params)

SpecSign == Init /\ [][NextSign]_vars

\* signing, then parsing the text of the signed envelope
NextRoundTrip ==
  \/ \E s \in {FakeSignatureScheme, OtherScheme} : Register(s)
  \/ \E params \in Params(Timestamps, {<<"p">>}, SecretLists) :
       params.schemes \in FakeSchemesArgs /\ CreateSignature(params)
  \/ ParseToString

SpecRoundTrip == Init /\ [][NextRoundTrip]_vars

\* parsing arbitrary text
NextParse ==
  \/ \E text \in Texts : Parse(text)
  \/ \E text \in ObjectSamples : ParseObject(text)

SpecParse == Init /\ [][NextParse]_vars

\* ---------------------------------------------------------------- properties

\* C1: with at least one entry, no untrusted scheme and the tolerance check
\* passing or ignored, verify returns iff some entry's value is its own scheme's
\* signature of (timestamp, payload, secret); otherwise it throws 'no valid
\* signature'; an envelope signed with a list of secrets verifies under each.
C1_AnyEntryMatches ==
  (last.op = "verify" /\ sig # <<>>) =>
    LET E == sig[1]
        sos == E.signatureObjects
        o == last.opts
        tol == IF o.tolerance = <<>> THEN 300 ELSE o.tolerance[1]
        fresh == o.ignoreTolerance \/ ~((o.now - E.timestamp) > tol * 1000)
        match == \E i \in 1..Len(sos) :
                   sos[i].value = Sign(sos[i].scheme, E.timestamp, last.payload, last.secret)
        signedWith == /\ made.created
                      /\ made.schemes # <<>>
                      /\ made.params.payload = last.payload
                      /\ \E j \in 1..Len(made.params.secrets) : made.params.secrets[j] = last.secret
    IN (Len(sos) >= 1 /\ o.untrustedSchemes = <<>> /\ fresh) =>
         /\ (last.err = Ok <=> match)
         /\ (~match => last.err = ErrNoValidSignature)
         /\ (signedWith => last.err = Ok)

\* verify succeeded on the second secret's entry: the first entry does not match
C1_Witness ==
  /\ last.op = "verify" /\ last.err = Ok /\ sig # <<>> /\ made.created
  /\ last.opts.untrustedSchemes = <<>>
  /\ Len(sig[1].signatureObjects) >= 2
  /\ sig[1].signatureObjects[1].value
       # Sign(sig[1].signatureObjects[1].scheme, sig[1].timestamp, last.payload, last.secret)

\* C2: an entry whose version is the version of an untrusted scheme never
\* makes verify succeed, a trusted matching entry after it still does, and with
\* no trusted matching entry verify throws 'no valid signature'.
C2_UntrustedSkipped ==
  (last.op = "verify" /\ sig # <<>>) =>
    LET E == sig[1]
        sos == E.signatureObjects
        o == last.opts
        tol == IF o.tolerance = <<>> THEN 300 ELSE o.tolerance[1]
        fresh == o.ignoreTolerance \/ ~((o.now - E.timestamp) > tol * 1000)
        trusted(i) == \A k \in 1..Len(o.untrustedSchemes) :
                        Version(o.untrustedSchemes[k]) # Version(sos[i].scheme)
        match(i) == sos[i].value = Sign(sos[i].scheme, E.timestamp, last.payload, last.secret)
        good == \E i \in 1..Len(sos) : trusted(i) /\ match(i)
    IN (Len(sos) >= 1 /\ fresh) =>
         /\ (last.err = Ok <=> good)
         /\ (~good => last.err = ErrNoValidSignature)

\* the first entry matches but is untrusted through another object of its
\* version, and verify still succeeded on a later entry
C2_Witness ==
  /\ last.op = "verify" /\ last.err = Ok /\ sig # <<>>
  /\ last.opts.untrustedSchemes = <<OtherScheme>>
  /\ Len(sig[1].signatureObjects) >= 2
  /\ sig[1].signatureObjects[1].scheme = FakeSignatureScheme
  /\ sig[1].signatureObjects[1].value
       = Sign(FakeSignatureScheme, sig[1].timestamp, last.payload, last.secret)

\* C3: verify throws 'signature has expired' exactly when ignoreTolerance is
\* unset and now - timestamp > tolerance * 1000 (300 by default): not at
\* equality, never for a future timestamp, never with ignoreTolerance.
C3_ExpiredExactly ==
  (last.op = "verify" /\ sig # <<>>) =>
    LET o == last.opts
        age == o.now - sig[1].timestamp
        tol == IF o.tolerance = <<>> THEN 300 ELSE o.tolerance[1]
    IN /\ (last.err = ErrExpired <=> (~o.ignoreTolerance /\ age > tol * 1000))
       /\ (age = tol * 1000 => last.err # ErrExpired)
       /\ (age < 0 => last.err # ErrExpired)
       /\ (o.ignoreTolerance => last.err # ErrExpired)

\* verify at exactly the default tolerance, not ignored, did not expire
C3_Witness ==
  /\ last.op = "verify" /\ sig # <<>>
  /\ last.opts.tolerance = <<>> /\ ~last.opts.ignoreTolerance
  /\ last.opts.now - sig[1].timestamp = 300000
  /\ last.err = Ok

\* C4 as stated: whatever the timestamp, the secrets and the schemes, parsing
\* the text of a signed envelope succeeds and gives an equal envelope.
C4_Original ==
  (last.op = "roundtrip" /\ made.created) => (last.err = Ok /\ last.eq)

\* C4, amended: parsing the text of a signed envelope succeeds and gives an
\* equal envelope, with the same timestamp and as many entries, provided the
\* timestamp is a non-zero integer, every scheme used has its version
\* registered when the text is parsed, and no signature value holds ',' or '='.
C4_RoundTrip ==
  (last.op = "roundtrip" /\ made.created /\ sig # <<>>) =>
    LET E == sig[1]
        sos == E.signatureObjects
        parseable ==
          /\ E.timestamp # 0
          /\ \A i \in 1..Len(sos) :
               /\ \E k \in 1..Len(last.reg) : Version(last.reg[k]) = Version(sos[i].scheme)
               /\ \A k \in 1..Len(sos[i].value) : sos[i].value[k] \notin {",", "="}
    IN parseable =>
         /\ last.err = Ok
         /\ last.eq
         /\ last.out[1].timestamp = E.timestamp
         /\ Len(last.out[1].signatureObjects) = Len(sos)

\* a signed envelope with a negative timestamp and two different entries came
\* back equal
C4_Witness ==
  /\ last.op = "roundtrip" /\ made.created /\ sig # <<>> /\ last.eq
  /\ sig[1].timestamp < 0
  /\ Len(sig[1].signatureObjects) >= 2
  /\ sig[1].signatureObjects[1].value # sig[1].signatureObjects[2].value

\* C5 as stated: parse of a text of key=value pairs, none of key t, fails with
\* 'missing timestamp'.
C5_Original ==
  (last.op = "parse"
   /\ \A i \in 1..Len(Split(last.text, ",")) :
        /\ Len(Split(Split(last.text, ",")[i], "=")) = 2
        /\ Split(Split(last.text, ",")[i], "=")[1] # <<"t">>)
  => last.err = ErrMissingTimestamp

\* C5, amended: parse of a text with no pair of key t always fails; it fails
\* with 'missing timestamp' exactly when every pair is an entry that
\* SignatureObject.parse accepts, and otherwise with the error of the first
\* pair that is not ('invalid signature' when the pair does not split in two at
\* '=', else the error of SignatureObject.parse, such as 'invalid signature
\* scheme version 999' for v999=...).
C5_NoTimestamp ==
  LET pairs == Split(last.text, ",")
      pairErr(i) == IF Len(Split(pairs[i], "=")) # 2 THEN ErrInvalidSignature
                    ELSE SignatureObjectParse(pairs[i], last.reg).err
      bad == {i \in 1..Len(pairs) : pairErr(i) # Ok}
  IN (last.op = "parse" /\ \A i \in 1..Len(pairs) : Split(pairs[i], "=")[1] # <<"t">>) =>
       /\ last.err # Ok
       /\ last.out = <<>>
       /\ (last.err = ErrMissingTimestamp <=> bad = {})
       /\ (bad # {} => last.err = pairErr(CHOOSE i \in bad : \A j \in bad : i <= j))

\* parse of v999=a failed on the unknown scheme version
C5_Witness ==
  /\ last.op = "parse"
  /\ last.text = <<"v", "9", "9", "9", "=", "a">>
  /\ last.err = ErrUnknownScheme
  /\ last.ver = 999

\* C6: SignatureObject.parse throws 'signature scheme version must be an
\* integer' whenever the key's text after the leading v is not a positive
\* decimal integer, and returns an entry only when that text is a positive
\* decimal integer naming a registered scheme.
C6_Claim ==
  LET parts == Split(last.text, "=")
      rest == Tail(parts[1])
      positive == /\ rest # <<>>
                  /\ \A i \in 1..Len(rest) : IsDigit(rest[i])
                  /\ DigitsVal(rest, 0) > 0
  IN (last.op = "parseObject" /\ Len(parts) = 2 /\ parts[1] # <<>> /\ parts[1][1] = "v") =>
       /\ (~positive => last.err = ErrInvalidVersion)
       /\ (last.err = Ok =>
             /\ positive
             /\ \E k \in 1..Len(last.reg) : Version(last.reg[k]) = DigitsVal(rest, 0))

\* C7: an envelope returned by parse or createSignature has a strictly
\* positive timestamp, and parse returns only when the value of the t pair is
\* a strictly positive decimal integer.
C7_Claim ==
  LET pairs == Split(last.text, ",")
      positive(v) == /\ v # <<>>
                     /\ \A i \in 1..Len(v) : IsDigit(v[i])
                     /\ DigitsVal(v, 0) > 0
  IN /\ (last.op = "createSignature" => last.out[1].timestamp > 0)
     /\ (last.op = "parse" /\ last.err = Ok) =>
          /\ last.out[1].timestamp > 0
          /\ \A i \in 1..Len(pairs) :
               Split(pairs[i], "=")[1] = <<"t">> => positive(Split(pairs[i], "=")[2])

\* C8: createSignature yields one entry per (scheme, secret), schemes outer and
\* secrets inner, the schemes being the registry in registration order when
\* none are given; with no secret or no scheme it yields no entry.
C8_SchemeBySecret ==
  (last.op = "createSignature") =>
    LET ps == last.params
        eff == IF ps.schemes = <<>> THEN last.reg ELSE ps.schemes[1]
        n == Len(ps.secrets)
        sos == last.out[1].signatureObjects
    IN /\ Len(sos) = Len(eff) * n
       /\ \A i \in 1..Len(eff), j \in 1..n :
            sos[(i - 1) * n + j]
              = [scheme |-> eff[i],
                 value |-> Sign(eff[i], ps.timestamp, ps.payload, ps.secrets[j])]
       /\ ((ps.secrets = <<>> \/ eff = <<>>) => sos = <<>>)

\* four entries from the registry <<Fake, V1>> and two different secrets
C8_Witness ==
  /\ last.op = "createSignature"
  /\ last.params.schemes = <<>>
  /\ last.reg = <<FakeSignatureScheme, SignatureSchemeV1>>
  /\ last.params.secrets = <<<<"a">>, <<",">>>>
  /\ Len(last.out[1].signatureObjects) = 4

\* C9: the registry never holds two schemes of one version; register of a
\* version already present changes nothing and find keeps returning the first
\* registered scheme; unregister leaves no scheme of the version and the others
\* in their order, and changes nothing when the version is absent.
C9_OnePerVersion ==
  [][ /\ \A i, j \in 1..Len(schemes') :
           i # j => Version(schemes'[i]) # Version(schemes'[j])
      /\ (regCall' = regCall => schemes' = schemes)
      /\ (regCall' # regCall /\ regCall'.op = "register") =>
           LET present == \E k \in 1..Len(schemes) : Version(schemes[k]) = regCall'.version
           IN /\ present => (schemes' = schemes
                             /\ Find(schemes', regCall'.version) = Find(schemes, regCall'.version))
              /\ ~present => (schemes' = Append(schemes, regCall'.scheme))
      /\ (regCall' # regCall /\ regCall'.op = "unregister") =>
           LET keep == {k \in 1..Len(schemes) : Version(schemes[k]) # regCall'.version}
           IN /\ \A k \in 1..Len(schemes') : Version(schemes'[k]) # regCall'.version
              /\ Len(schemes') = Cardinality(keep)
              /\ \A k \in keep : schemes'[Cardinality({m \in keep : m <= k})] = schemes[k]
              /\ (Cardinality(keep) = Len(schemes) => schemes' = schemes)
    ]_vars

\* register of OtherScheme while FakeSignatureScheme holds the version, after
\* the default scheme was unregistered and registered again behind it
C9_Witness ==
  /\ regCall.op = "register" /\ regCall.scheme = OtherScheme
  /\ schemes = <<FakeSignatureScheme, SignatureSchemeV1>>

\* C10: verify on the envelope in hand, called again with the same payload,
\* secret and options after any registry changes, gives the same outcome, and
\* verify changes neither the registry nor the envelope.
C10_RegistryIndependent ==
  [][ /\ (/\ last.op = "verify" /\ last'.op = "verify" /\ sig' = sig
          /\ last'.payload = last.payload /\ last'.secret = last.secret
          /\ last'.opts = last.opts)
         => last'.err = last.err
      /\ (last'.op = "verify" /\ last' # last) => (schemes' = schemes /\ sig' = sig)
    ]_vars

\* verify succeeded on an entry bound to FakeSignatureScheme while the registry
\* holds OtherScheme for that version
C10_Witness ==
  /\ last.op = "verify" /\ last.err = Ok /\ sig # <<>>
  /\ \E i \in 1..Len(sig[1].signatureObjects) :
       /\ sig[1].signatureObjects[i].scheme = FakeSignatureScheme
       /\ sig[1].signatureObjects[i].value
            = Sign(FakeSignatureScheme, sig[1].timestamp, last.payload, last.secret)
  /\ \A i \in 1..Len(sig[1].signatureObjects) :
       sig[1].signatureObjects[i].scheme = FakeSignatureScheme
  /\ Find(schemes, 1337) = <<OtherScheme>>

====
